---- MODULE Spec2Model ----
(***************************************************************************)
(* Model of scripts/generate_file_tree.py.                                 *)
(*                                                                         *)
(* A string is a sequence of tokens.  The punctuation tokens are single    *)
(* characters; a name token stands for the run of characters it spells.    *)
(* No two tokens start with the same character and no token is a prefix of *)
(* another, so two strings are equal exactly when their token sequences    *)
(* are, and Python's code-point order of two strings is the lexicographic  *)
(* order of their token sequences under Ord.                               *)
(***************************************************************************)
EXTENDS Integers, Sequences, FiniteSets

\* ---------------------------------------------------------------- constants

ROOT_NAME == "PROJECT INSTRUCTIONS"
INPUT_FILE == "project_instructions_raw.txt"
OUTPUT_FILE == "project_instructions_tree.md"

NL == "\n"
SP == " "
SLASH == "/"

\* ------------------------------------------------------------------- bounds

\* most raw lines in an enumerated input file
MaxLines == 3

\* ------------------------------------------------------------ string model

\* code point of the first character of a token
Ord(t) ==
  CASE t = NL -> 10
    [] t = SP -> 32
    [] t = "#" -> 35
    [] t = "*" -> 42
    [] t = "-" -> 45
    [] t = SLASH -> 47
    [] t = "A" -> 65
    [] t = "B" -> 66
    [] t = ROOT_NAME -> 80
    [] t = "h" -> 104
    [] t = "ignored" -> 105
    [] t = "no-anchor" -> 110
    [] t = "old" -> 111
    [] t = "x.txt" -> 120
    [] t = "y.txt" -> 121
    [] t = "z.txt" -> 122

\* str.__lt__ : a < b in code-point order
StrLess(a, b) ==
  \E k \in 1..(Len(a) + 1) :
    /\ k <= Len(b)
    /\ \A j \in 1..(k - 1) : a[j] = b[j]
    /\ \/ k = Len(a) + 1
       \/ Ord(a[k]) < Ord(b[k])

\* str.isspace for one character
IsSpace(t) == t \in {SP, NL}

RECURSIVE LStrip(_)
LStrip(s) ==
  IF s # <<>> /\ IsSpace(Head(s)) THEN LStrip(Tail(s)) ELSE s

RECURSIVE RStrip(_)
RStrip(s) ==
  IF s # <<>> /\ IsSpace(s[Len(s)]) THEN RStrip(SubSeq(s, 1, Len(s) - 1)) ELSE s

\* str.strip()
Strip(s) == RStrip(LStrip(s))

\* str.split('/') : always at least one (possibly empty) part
RECURSIVE Split(_)
Split(s) ==
  IF \A k \in 1..Len(s) : s[k] # SLASH
  THEN <<s>>
  ELSE LET k == CHOOSE i \in 1..Len(s) :
                  s[i] = SLASH /\ \A j \in 1..(i - 1) : s[j] # SLASH
       IN <<SubSeq(s, 1, k - 1)>> \o Split(SubSeq(s, k + 1, Len(s)))

\* '\n'.join(ls)
RECURSIVE Join(_)
Join(ls) ==
  IF ls = <<>> THEN <<>>
  ELSE IF Len(ls) = 1 THEN ls[1]
  ELSE ls[1] \o <<NL>> \o Join(Tail(ls))

\* variant: one indent step too many, "  " * (n + 1)
RECURSIVE Spaces_OneMore(_)
Spaces_OneMore(n) == IF n < 0 THEN <<>> ELSE <<SP, SP>> \o Spaces_OneMore(n - 1)

\* "  " * n
RECURSIVE Spaces(_)
Spaces(n) == IF n <= 0 THEN <<>> ELSE <<SP, SP>> \o Spaces(n - 1)

\* ---------------------------------------------------------- the file system

\* a file that does not exist
NoFile == [exists |-> FALSE, data |-> <<>>]

\* a file that exists with content d (for the input: its sequence of raw
\* lines, as iterating the file yields them; for the output: its characters)
File(d) == [exists |-> TRUE, data |-> d]

\* the raw lines an enumerated input file is made of
LinePool ==
  { <<SP, NL>>,
    <<ROOT_NAME, SLASH, "A", NL>>,
    <<SP, ROOT_NAME, SLASH, "A", SP, NL>>,
    <<ROOT_NAME, SLASH, "A", SLASH, "B", NL>>,
    <<"B", SLASH, ROOT_NAME, SLASH, "B", NL>>,
    <<"A", SLASH, SP, ROOT_NAME, SLASH, "B", NL>>,
    <<ROOT_NAME, NL>>,
    <<ROOT_NAME, SLASH, SLASH, NL>>,
    <<ROOT_NAME, SLASH, ROOT_NAME, NL>> }

\* the input of the documented scenario
ScenarioInput ==
  << <<ROOT_NAME, SLASH, "A", SLASH, "x.txt", NL>>,
     <<ROOT_NAME, SLASH, "A", SLASH, "y.txt", NL>>,
     <<ROOT_NAME, SLASH, "B", SLASH, "z.txt", NL>>,
     <<"ignored", SLASH, "no-anchor", SLASH, "h", NL>> >>

Inputs ==
  UNION { [1..n -> LinePool] : n \in 0..MaxLines } \cup {ScenarioInput}

\* what the output file may hold before the run
OldContent == <<"old", NL, "old">>

\* ------------------------------------------------------- generate_tree steps

\* variant: the lines are kept as read, blank ones dropped, none stripped
RECURSIVE ReadLines_NoStrip(_)
ReadLines_NoStrip(raw) ==
  IF raw = <<>> THEN <<>>
  ELSE IF Strip(Head(raw)) # <<>>
       THEN <<Head(raw)>> \o ReadLines_NoStrip(Tail(raw))
       ELSE ReadLines_NoStrip(Tail(raw))

\* [line.strip() for line in f if line.strip()]
RECURSIVE ReadLines(_)
ReadLines(raw) ==
  IF raw = <<>> THEN <<>>
  ELSE IF Strip(Head(raw)) # <<>>
       THEN <<Strip(Head(raw))>> \o ReadLines(Tail(raw))
       ELSE ReadLines(Tail(raw))

\* paths.sort()
RECURSIVE SortList(_)
SortList(ps) ==
  IF ps = <<>> THEN <<>>
  ELSE LET k == CHOOSE i \in 1..Len(ps) :
                  \A j \in 1..Len(ps) : ~StrLess(ps[j], ps[i])
       IN <<ps[k]>> \o SortList(SubSeq(ps, 1, k - 1) \o SubSeq(ps, k + 1, Len(ps)))

\* ROOT_NAME as a path segment
Anchor == <<ROOT_NAME>>

\* ROOT_NAME in parts
HasAnchor(parts) == \E k \in 1..Len(parts) : parts[k] = Anchor

\* variant: the last index of ROOT_NAME rather than the first
Index_Last(parts) ==
  CHOOSE k \in 1..Len(parts) :
    parts[k] = Anchor /\ \A j \in (k + 1)..Len(parts) : parts[j] # Anchor

\* parts.index(ROOT_NAME), defined when HasAnchor(parts)
Index(parts) ==
  CHOOSE k \in 1..Len(parts) :
    parts[k] = Anchor /\ \A j \in 1..(k - 1) : parts[j] # Anchor

\* variant: the parts are not sliced at root_idx
RelParts_Whole(parts) == parts

\* parts[root_idx:]
RelParts(parts) == SubSeq(parts, Index(parts), Len(parts))

\* The nested dict is the set of its nodes, each named by the sequence of
\* keys leading to it from tree; walking rel_parts creates the missing ones.
Insert(t, rel_parts) ==
  t \cup { SubSeq(rel_parts, 1, k) : k \in 1..Len(rel_parts) }

\* variant: a path without ROOT_NAME is walked whole instead of passed over
Step_KeepAll(t, path) ==
  LET parts == Split(path)
  IN IF HasAnchor(parts) THEN Insert(t, RelParts(parts)) ELSE Insert(t, parts)

\* the body of the for loop: split the path, find ROOT_NAME, walk the parts
\* from it on; a path without ROOT_NAME raises ValueError and is passed over
Step(t, path) ==
  LET parts == Split(path)
  IN IF HasAnchor(parts) THEN Insert(t, RelParts(parts)) ELSE t

\* the for loop over ps, started on t
RECURSIVE BuildTree(_, _)
BuildTree(t, ps) ==
  IF ps = <<>> THEN t ELSE BuildTree(Step(t, Head(ps)), Tail(ps))

\* node.keys() of the dict at node
Keys(t, node) ==
  { p[Len(p)] : p \in { q \in t : /\ Len(q) = Len(node) + 1
                                  /\ SubSeq(q, 1, Len(node)) = node } }

\* variant: sorted(names, reverse=True)
RECURSIVE Sorted_Desc(_)
Sorted_Desc(S) ==
  IF S = {} THEN <<>>
  ELSE LET m == CHOOSE x \in S : \A y \in S \ {x} : StrLess(y, x)
       IN <<m>> \o Sorted_Desc(S \ {m})

\* sorted(names)
RECURSIVE Sorted(_)
Sorted(S) ==
  IF S = {} THEN <<>>
  ELSE LET m == CHOOSE x \in S : \A y \in S \ {x} : StrLess(x, y)
       IN <<m>> \o Sorted(S \ {m})

\* f"# {name}"
HeadingLine(name) == <<"#", SP>> \o name

\* variant: a directory is written like a leaf
DirLine_Plain(level, name) == Spaces(level - 1) \o <<"-", SP>> \o name

\* f"{indent}- **{name}/**"
DirLine(level, name) ==
  Spaces(level - 1) \o <<"-", SP, "*", "*">> \o name \o <<SLASH, "*", "*">>

\* variant: the leaf's indent is "  " * level
LeafLine_Deeper(level, name) == Spaces(level) \o <<"-", SP>> \o name

\* f"{indent}- {name}"
LeafLine(level, name) == Spaces(level - 1) \o <<"-", SP>> \o name

\* print_node(node, level): the lines it appends; names is what is left of
\* sorted(node.keys())
RECURSIVE PrintNames(_, _, _, _)
PrintNames(t, node, level, names) ==
  IF names = <<>> THEN <<>>
  ELSE LET name == Head(names)
           child == Append(node, name)
           here ==
             IF level = 0
             THEN <<HeadingLine(name)>>
                    \o PrintNames(t, child, level + 1, Sorted(Keys(t, child)))
             ELSE IF Keys(t, child) # {}
                  THEN <<DirLine(level, name)>>
                         \o PrintNames(t, child, level + 1, Sorted(Keys(t, child)))
                  ELSE <<LeafLine(level, name)>>
       IN here \o PrintNames(t, node, level, Tail(names))

PrintNode(t, node, level) == PrintNames(t, node, level, Sorted(Keys(t, node)))

\* what a run that completes on the raw lines raw writes to the output
GenerateTree(raw) ==
  Join(PrintNode(BuildTree({}, SortList(ReadLines(raw))), <<>>, 0))

NotFoundMsg == <<"Error: ", INPUT_FILE, " not found">>
SuccessMsg == <<"Tree generated in ", OUTPUT_FILE>>

\* -------------------------------------------------------------------- state

VARIABLES
  inFile,     \* the input resource
  outFile,    \* the output resource
  outBefore,  \* the output resource as it was when the run started
  pc,         \* where generate_tree is
  paths,      \* paths
  i,          \* position of the for loop in paths
  tree,       \* tree
  lines,      \* lines
  console     \* what print has reported

vars == <<inFile, outFile, outBefore, pc, paths, i, tree, lines, console>>

Init ==
  /\ inFile \in {NoFile} \cup { File(ls) : ls \in Inputs }
  /\ outFile \in {NoFile, File(OldContent)}
  /\ outBefore = outFile
  /\ pc = "NotStarted"
  /\ paths = <<>>
  /\ i = 1
  /\ tree = {}
  /\ lines = <<>>
  /\ console = <<>>

\* variant: the handler reports and does not return
InputNotFound_NoReturn ==
  /\ pc = "NotStarted"
  /\ ~inFile.exists
  /\ console' = Append(console, NotFoundMsg)
  /\ paths' = <<>>
  /\ pc' = "Sort"
  /\ UNCHANGED <<inFile, outFile, outBefore, i, tree, lines>>

\* open(INPUT_FILE) raises FileNotFoundError: report and return
InputNotFound ==
  /\ pc = "NotStarted"
  /\ ~inFile.exists
  /\ console' = Append(console, NotFoundMsg)
  /\ pc' = "Failed"
  /\ UNCHANGED <<inFile, outFile, outBefore, paths, i, tree, lines>>

\* the input is read, stripped and filtered, and the file closed
ReadInput ==
  /\ pc = "NotStarted"
  /\ inFile.exists
  /\ paths' = ReadLines(inFile.data)
  /\ pc' = "Sort"
  /\ UNCHANGED <<inFile, outFile, outBefore, i, tree, lines, console>>

\* opening or reading the input raises another OSError: not caught
ReadFault ==
  /\ pc = "NotStarted"
  /\ inFile.exists
  /\ pc' = "Faulted"
  /\ UNCHANGED <<inFile, outFile, outBefore, paths, i, tree, lines, console>>

SortPaths ==
  /\ pc = "Sort"
  /\ paths' = SortList(paths)
  /\ i' = 1
  /\ tree' = {}
  /\ pc' = "Build"
  /\ UNCHANGED <<inFile, outFile, outBefore, lines, console>>

\* one iteration of the for loop over paths
LoopBody ==
  /\ pc = "Build"
  /\ i <= Len(paths)
  /\ tree' = Step(tree, paths[i])
  /\ i' = i + 1
  /\ UNCHANGED <<inFile, outFile, outBefore, pc, paths, lines, console>>

\* lines = []; print_node(tree, 0)
Render ==
  /\ pc = "Build"
  /\ i > Len(paths)
  /\ lines' = PrintNode(tree, <<>>, 0)
  /\ pc' = "Open"
  /\ UNCHANGED <<inFile, outFile, outBefore, paths, i, tree, console>>

\* open(OUTPUT_FILE, 'w') creates the file or truncates it
OpenOutput ==
  /\ pc = "Open"
  /\ outFile' = File(<<>>)
  /\ pc' = "Write"
  /\ UNCHANGED <<inFile, outBefore, paths, i, tree, lines, console>>

\* open(OUTPUT_FILE, 'w') raises OSError: not caught
OpenFault ==
  /\ pc = "Open"
  /\ pc' = "Faulted"
  /\ UNCHANGED <<inFile, outFile, outBefore, paths, i, tree, lines, console>>

\* f.write('\n'.join(lines)), the file is closed, success is reported
WriteOutput ==
  /\ pc = "Write"
  /\ outFile' = File(Join(lines))
  /\ console' = Append(console, SuccessMsg)
  /\ pc' = "Completed"
  /\ UNCHANGED <<inFile, outBefore, paths, i, tree, lines>>

\* the write or the flush at close raises OSError after k characters reached
\* the file: not caught
WriteFault ==
  /\ pc = "Write"
  /\ \E k \in 0..Len(Join(lines)) :
       outFile' = File(SubSeq(Join(lines), 1, k))
  /\ pc' = "Faulted"
  /\ UNCHANGED <<inFile, outBefore, paths, i, tree, lines, console>>

Next ==
  \/ InputNotFound
  \/ ReadInput
  \/ ReadFault
  \/ SortPaths
  \/ LoopBody
  \/ Render
  \/ OpenOutput
  \/ OpenFault
  \/ WriteOutput
  \/ WriteFault

Spec == Init /\ [][Next]_vars

\* ------------------------------------------------- reading the input as text

\* the string s without its leading and trailing white space
Trimmed(s) ==
  LET ink == { k \in 1..Len(s) : s[k] \notin {SP, NL} }
  IN IF ink = {} THEN <<>>
     ELSE SubSeq(s, CHOOSE a \in ink : \A k \in ink : a <= k,
                    CHOOSE b \in ink : \A k \in ink : k <= b)

\* the '/'-separated segments of s
Segments(s) ==
  LET cuts == {0, Len(s) + 1} \cup { k \in 1..Len(s) : s[k] = SLASH }
      cut(n) == CHOOSE c \in cuts : Cardinality({ d \in cuts : d < c }) = n - 1
  IN [ n \in 1..(Cardinality(cuts) - 1) |-> SubSeq(s, cut(n) + 1, cut(n + 1) - 1) ]

\* the path entries of the input: one per non-blank line
Entries == { Segments(Trimmed(inFile.data[n])) :
               n \in { k \in 1..Len(inFile.data) : Trimmed(inFile.data[k]) # <<>> } }

AnchorAt(e) == { k \in 1..Len(e) : e[k] = <<ROOT_NAME>> }

\* the entries that hold the anchor segment
Retained == { e \in Entries : AnchorAt(e) # {} }

\* the segments of a retained entry from the first anchor on
Chain(e) ==
  LET a == CHOOSE k \in AnchorAt(e) : \A j \in AnchorAt(e) : k <= j
  IN [ n \in 1..(Len(e) - a + 1) |-> e[a + n - 1] ]

\* the distinct anchor-rooted segment prefixes of the retained entries
Prefixes ==
  UNION { { SubSeq(Chain(e), 1, n) : n \in 1..Len(Chain(e)) } : e \in Retained }

\* ------------------------------------------------ reading the output as text

\* the lines of the text d
RECURSIVE TextLines(_)
TextLines(d) ==
  IF d = <<>> THEN <<>>
  ELSE IF \A k \in 1..Len(d) : d[k] # NL THEN <<d>>
  ELSE LET k == CHOOSE n \in 1..Len(d) : d[n] = NL /\ \A j \in 1..(n - 1) : d[j] # NL
       IN <<SubSeq(d, 1, k - 1)>> \o TextLines(SubSeq(d, k + 1, Len(d)))

OutLines == TextLines(outFile.data)

\* the number of spaces a line starts with
IndentOf(l) ==
  CHOOSE n \in 0..Len(l) :
    /\ \A k \in 1..n : l[k] = SP
    /\ n < Len(l) => l[n + 1] # SP

BodyOf(l) == SubSeq(l, IndentOf(l) + 1, Len(l))

IsHeading(l) == Len(l) >= 2 /\ l[1] = "#" /\ l[2] = SP

IsDirEntry(l) ==
  LET b == BodyOf(l)
  IN /\ Len(b) >= 7
     /\ SubSeq(b, 1, 4) = <<"-", SP, "*", "*">>
     /\ SubSeq(b, Len(b) - 2, Len(b)) = <<SLASH, "*", "*">>

IsLeafEntry(l) ==
  LET b == BodyOf(l)
  IN /\ Len(b) >= 2
     /\ SubSeq(b, 1, 2) = <<"-", SP>>
     /\ ~IsDirEntry(l)

NameOf(l) ==
  LET b == BodyOf(l)
  IN IF IsHeading(l) THEN SubSeq(l, 3, Len(l))
     ELSE IF IsDirEntry(l) THEN SubSeq(b, 5, Len(b) - 3)
     ELSE SubSeq(b, 3, Len(b))

\* nesting depth of a line: 0 for a heading, 1 for an entry with no indent
DepthOf(l) == IF IsHeading(l) THEN 0 ELSE (IndentOf(l) \div 2) + 1

\* the line a line hangs from: the nearest one above it that is one level
\* up (0 when there is none)
ParentOf(ls, k) ==
  LET up == { j \in 1..(k - 1) : DepthOf(ls[j]) = DepthOf(ls[k]) - 1 }
  IN IF up = {} THEN 0 ELSE CHOOSE j \in up : \A n \in up : n <= j

\* the names from the heading down to line k
RECURSIVE NodeAt(_, _)
NodeAt(ls, k) ==
  IF k = 0 THEN <<>> ELSE NodeAt(ls, ParentOf(ls, k)) \o <<NameOf(ls[k])>>

Completed == pc = "Completed"

\* the lines of the output that stand for the node p
LinesOf(p) == { k \in 1..Len(OutLines) : NodeAt(OutLines, k) = p }

\* ------------------------------------------------------------------- claims

\* C1 (as stated): for every input entry that holds the anchor, the chain of
\* its segments from the first anchor on appears in the output, each
\* ancestor's line above its descendant's, and each segment's line indented
\* one level (two spaces) deeper than its parent segment's line.
C1_ChainOneIndentDeeper ==
  Completed =>
    \A e \in Retained : \A n \in 1..Len(Chain(e)) :
      \E k \in LinesOf(SubSeq(Chain(e), 1, n)) :
        n > 1 =>
          \E j \in LinesOf(SubSeq(Chain(e), 1, n - 1)) :
            /\ j < k
            /\ IndentOf(OutLines[k]) = IndentOf(OutLines[j]) + 2

\* C1 (amended): the chain appears, ancestors above descendants, each line
\* hanging from its parent segment's line; the anchor's direct child has the
\* heading's (zero) indent, and every deeper segment is indented exactly two
\* spaces more than its parent segment.
C1_ChainConnected ==
  Completed =>
    \A e \in Retained : \A n \in 1..Len(Chain(e)) :
      \E k \in LinesOf(SubSeq(Chain(e), 1, n)) :
        n > 1 =>
          \E j \in LinesOf(SubSeq(Chain(e), 1, n - 1)) :
            /\ j < k
            /\ ParentOf(OutLines, k) = j
            /\ IndentOf(OutLines[k]) =
                 IF n = 2 THEN IndentOf(OutLines[j]) ELSE IndentOf(OutLines[j]) + 2

\* an entry whose anchor is not its first segment and whose chain is three
\* segments long has been rendered
C1_Witness ==
  /\ Completed
  /\ \E e \in Retained : e[1] # <<ROOT_NAME>> /\ Len(Chain(e)) >= 2
  /\ \E e \in Retained : Len(Chain(e)) >= 3 /\ LinesOf(Chain(e)) # {}

\* the input without the entries that do not hold the anchor
RECURSIVE WithoutAnchorless(_)
WithoutAnchorless(raw) ==
  IF raw = <<>> THEN <<>>
  ELSE IF Trimmed(Head(raw)) # <<>> /\ AnchorAt(Segments(Trimmed(Head(raw)))) = {}
       THEN WithoutAnchorless(Tail(raw))
       ELSE <<Head(raw)>> \o WithoutAnchorless(Tail(raw))

\* C2: an entry none of whose segments is the anchor is skipped silently: the
\* output is the output for the input with every such entry removed, no line
\* of the output stands for it, and nothing but success is reported.
C2_AnchorlessSkipped ==
  Completed =>
    /\ outFile.data = GenerateTree(WithoutAnchorless(inFile.data))
    /\ \A k \in 1..Len(OutLines) : NodeAt(OutLines, k) \in Prefixes
    /\ console = <<SuccessMsg>>

\* a run has completed on an input holding an anchor-less entry next to a
\* retained one
C2_Witness ==
  /\ Completed
  /\ Entries \ Retained # {}
  /\ Retained # {}
  /\ WithoutAnchorless(inFile.data) # inFile.data

\* the lines hanging from the same line, at one level
Siblings(j, k) ==
  /\ DepthOf(OutLines[j]) = DepthOf(OutLines[k])
  /\ ParentOf(OutLines, j) = ParentOf(OutLines, k)

\* C3: the children of every node appear in strictly increasing
\* lexicographic order of name, whatever the order of the input lines.
C3_SiblingsSorted ==
  Completed =>
    \A j, k \in 1..Len(OutLines) :
      j < k /\ Siblings(j, k) => StrLess(NameOf(OutLines[j]), NameOf(OutLines[k]))

\* siblings have been written from an input whose lines were not in order
C3_Witness ==
  /\ Completed
  /\ \E j, k \in 1..Len(OutLines) : j < k /\ Siblings(j, k)
  /\ Len(inFile.data) >= 2
  /\ StrLess(Trimmed(inFile.data[2]), Trimmed(inFile.data[1]))

\* p is an ancestor for at least one path
IsAncestor(p) ==
  \E q \in Prefixes : Len(q) > Len(p) /\ SubSeq(q, 1, Len(p)) = p

\* C4 (as stated): every node with a child is rendered with the '**name/**'
\* marker and every node without descendants as a plain '- name' entry, at
\* every level, the anchor level included.
C4_MarkerAtEveryLevel ==
  Completed =>
    \A p \in Prefixes : \E k \in LinesOf(p) :
      IF IsAncestor(p) THEN IsDirEntry(OutLines[k]) ELSE IsLeafEntry(OutLines[k])

\* C4 (amended): below the anchor level, every node with a child is rendered
\* with the '**name/**' marker and every node without descendants as a plain
\* '- name' entry; the anchor-level node is rendered as the heading '# name'
\* whether or not it has children.
C4_MarkerBelowAnchor ==
  Completed =>
    \A p \in Prefixes : \E k \in LinesOf(p) :
      IF Len(p) = 1 THEN IsHeading(OutLines[k])
      ELSE IF IsAncestor(p) THEN IsDirEntry(OutLines[k]) /\ ~IsHeading(OutLines[k])
      ELSE IsLeafEntry(OutLines[k]) /\ ~IsHeading(OutLines[k])

\* a directory and a leaf below the anchor have been written
C4_Witness ==
  /\ Completed
  /\ \E p \in Prefixes : Len(p) >= 2 /\ IsAncestor(p)
  /\ \E p \in Prefixes : Len(p) >= 2 /\ ~IsAncestor(p)

\* C5 (as stated): the scenario input yields '# PROJECT INSTRUCTIONS', then
\* '- **A/**' indented two spaces, '- x.txt' and '- y.txt' indented four,
\* '- **B/**' indented two and '- z.txt' indented four.
C5_ScenarioIndented ==
  Completed /\ inFile.data = ScenarioInput =>
    OutLines = << <<"#", SP, ROOT_NAME>>,
                  <<SP, SP, "-", SP, "*", "*", "A", SLASH, "*", "*">>,
                  <<SP, SP, SP, SP, "-", SP, "x.txt">>,
                  <<SP, SP, SP, SP, "-", SP, "y.txt">>,
                  <<SP, SP, "-", SP, "*", "*", "B", SLASH, "*", "*">>,
                  <<SP, SP, SP, SP, "-", SP, "z.txt">> >>

\* C5 (amended): the scenario input yields exactly six lines in this order:
\* '# PROJECT INSTRUCTIONS', '- **A/**' with no indent, '- x.txt' and
\* '- y.txt' indented two spaces, '- **B/**' with no indent and '- z.txt'
\* indented two spaces; the 'ignored/...' line contributes nothing.
C5_Scenario ==
  Completed /\ inFile.data = ScenarioInput =>
    outFile.data = <<"#", SP, ROOT_NAME, NL,
                     "-", SP, "*", "*", "A", SLASH, "*", "*", NL,
                     SP, SP, "-", SP, "x.txt", NL,
                     SP, SP, "-", SP, "y.txt", NL,
                     "-", SP, "*", "*", "B", SLASH, "*", "*", NL,
                     SP, SP, "-", SP, "z.txt">>

\* the run on the scenario input has completed
C5_Witness == Completed /\ inFile.data = ScenarioInput /\ Len(OutLines) = 6

\* C6: when the input resource does not exist, the run ends in Failed, the
\* output resource is as it was, and the not-found message naming the input
\* is the one message reported.
C6_MissingInput ==
  ~inFile.exists /\ pc # "NotStarted" =>
    /\ pc = "Failed"
    /\ outFile = outBefore
    /\ console = << <<"Error: ", "project_instructions_raw.txt", " not found">> >>

\* a run on a missing input has ended, with an output resource in place
C6_Witness == ~inFile.exists /\ pc = "Failed" /\ outBefore.exists

\* C7: however a run ends, the output resource holds the complete rendering
\* of the tree or is exactly as it was before the run.
C7_NoPartialWrite ==
  pc \in {"Completed", "Failed", "Faulted"} =>
    \/ outFile = outBefore
    \/ inFile.exists /\ outFile = File(GenerateTree(inFile.data))

\* the set S as a sequence, in some order
RECURSIVE SomeOrder(_)
SomeOrder(S) ==
  IF S = {} THEN <<>>
  ELSE LET x == CHOOSE y \in S : TRUE IN <<x>> \o SomeOrder(S \ {x})

\* the trimmed non-blank lines of the raw lines raw, as a set
LineSet(raw) == { Trimmed(raw[k]) : k \in 1..Len(raw) } \ {<<>>}

\* C8: the output depends only on the set of trimmed non-blank input lines:
\* it is the output for that set listed once in any order; and while the
\* tree is built it depends only on the set of paths inserted so far.
C8_DependsOnLineSet ==
  /\ Completed => outFile.data = GenerateTree(SomeOrder(LineSet(inFile.data)))
  /\ pc = "Build" =>
       tree = BuildTree({}, SomeOrder({ paths[k] : k \in 1..(i - 1) }))

\* a run has completed on an input with a repeated line, given out of order
\* and with a blank line
C8_Witness ==
  /\ Completed
  /\ Cardinality(LineSet(inFile.data)) < Len(inFile.data)
  /\ \E j, k \in 1..Len(inFile.data) :
       j < k /\ Trimmed(inFile.data[j]) = Trimmed(inFile.data[k])
             /\ inFile.data[j] # inFile.data[k]
  /\ outFile.data # <<>>

\* the line of a node d levels below the anchor heading, as a directory
EntryOfDir(d, name) ==
  [ k \in 1..(2 * (d - 1)) |-> SP ] \o <<"-", SP, "*", "*">> \o name \o <<SLASH, "*", "*">>

\* the line of a node d levels below the anchor heading, as a leaf
EntryOfLeaf(d, name) == [ k \in 1..(2 * (d - 1)) |-> SP ] \o <<"-", SP>> \o name

\* the lines a node of depth d (0 at the anchor level) and name may have
TextsOf(d, name) ==
  IF d = 0 THEN { <<"#", SP>> \o name }
  ELSE { EntryOfDir(d, name), EntryOfLeaf(d, name) }

\* C9: every anchor-level name is the heading '# name' with no indent, and
\* every node d >= 1 levels below it has an indent of exactly 2*(d-1) spaces,
\* directories and leaves alike: the output holds, for every depth and name,
\* as many lines of that form as there are nodes of that depth and name, and
\* no other line.
C9_IndentByDepth ==
  Completed =>
    /\ Len(OutLines) = Cardinality(Prefixes)
    /\ \A p \in Prefixes :
         Cardinality({ k \in 1..Len(OutLines) :
                         OutLines[k] \in TextsOf(Len(p) - 1, p[Len(p)]) })
           = Cardinality({ q \in Prefixes : Len(q) = Len(p) /\ q[Len(q)] = p[Len(p)] })

\* nodes one and two levels below the heading have been written
C9_Witness ==
  /\ Completed
  /\ \E p \in Prefixes : Len(p) = 3
  /\ \E k \in 1..Len(OutLines) : IndentOf(OutLines[k]) = 2

\* C10: the output holds exactly one line per distinct anchor-rooted prefix of
\* the retained entries and no other; at most one line is a heading, it is
\* '# PROJECT INSTRUCTIONS' and it is the first; with no retained entry the
\* output is the empty string.
C10_OneLinePerPrefix ==
  Completed =>
    /\ \A p \in Prefixes : Cardinality(LinesOf(p)) = 1
    /\ \A k \in 1..Len(OutLines) : NodeAt(OutLines, k) \in Prefixes
    /\ \A k \in 1..Len(OutLines) :
         IsHeading(OutLines[k]) => k = 1 /\ OutLines[k] = <<"#", SP, ROOT_NAME>>
    /\ Retained = {} => outFile.data = <<>>

\* an entry that is a proper prefix of another, and a prefix shared by two
\* entries, have been written
C10_Witness ==
  /\ Completed
  /\ \E e, f \in Retained : e # f /\ Chain(e) \in { SubSeq(Chain(f), 1, n) : n \in 1..Len(Chain(f)) }
  /\ Len(OutLines) >= 3

\* a run on an input with no retained entry has completed
C10_WitnessEmpty == Completed /\ Retained = {} /\ Entries # {}

====
